---- MODULE Spec2Model ----
(***************************************************************************)
(* Model of the EPD_1in54 e-paper driver (src/epaper1in54.py).             *)
(*                                                                         *)
(* The driver object is the state: its canvas buffer, its orientation      *)
(* fields, its dirty flag and the levels of the pins it drives.  Every     *)
(* public method is one action; the bus traffic of the most recent call is *)
(* kept in `bus` (pin writes, SPI writes, sleeps and busy waits, in        *)
(* order), and `lastOp` names that call, its argument and the exception it *)
(* ended with ("" when it returned normally).                              *)
(*                                                                         *)
(* Spec      the driver, one method call per step.                         *)
(* SpecWait  wait_busy alone, one poll of the busy line per step.          *)
(* FairWait  SpecWait with the program making progress.                    *)
(* SpecPins  send_cmd and send_data alone, one statement per step.         *)
(***************************************************************************)
EXTENDS Integers, Sequences, FiniteSets, TLC

VARIABLES
    width, height,        \* self.width, self.height
    buffer,               \* self.buffer: the bytearray of the canvas
    flip_horizontal,      \* self.flip_horizontal
    flip_vertical,        \* self.flip_vertical
    rotation,             \* self.rotation
    dirty,                \* self.dirty
    cs,                   \* level of the chip-select pin
    state,                \* "Uninitialized", "Constructed", or "Dead"
    draws,                \* drawing calls since the canvas was last replaced
    lastOp,               \* the most recent call: [name, arg, exc]
    bus,                  \* the bus events of the most recent call
    wb,                   \* the activation of wait_busy (SpecWait)
    xfer                  \* the activation of send_cmd / send_data (SpecPins)

vars == <<width, height, buffer, flip_horizontal, flip_vertical, rotation,
          dirty, cs, state, draws, lastOp, bus, wb, xfer>>

driverVars == <<width, height, buffer, flip_horizontal, flip_vertical, rotation,
                dirty, cs, state, draws, lastOp, bus>>

(***************************************************************************)
(* Program constants.                                                      *)
(***************************************************************************)
BUSY_TIMEOUT_MS == 5000

POLL_MS == 50

RESET_MS == 200

DefaultSize == 200

\* time.ticks_ms() wraps at this period; time.ticks_diff() is the signed
\* difference modulo the period.
TICKS_PERIOD == 2^30

(***************************************************************************)
(* Bounds of the model.                                                    *)
(***************************************************************************)
\* Drawing-primitive calls allowed between two replacements of the canvas.
MaxDraws == 1

\* Extra milliseconds a sleep_ms(50) may take beyond the 50 asked for.
MaxJitter == 0

\* The panels the driver is constructed for: <<width, height>>.
PanelSizes == {<<16, 16>>, <<16, 8>>, <<8, 16>>}

Bytes == 0..255

(***************************************************************************)
(* Bytes and bits.                                                         *)
(***************************************************************************)
\* (b >> k) & 0x01
BitOf(b, k) == (b \div (2^k)) % 2

\* bytearray(n): n zero bytes
ZeroBytes(n) == [i \in 1..n |-> 0]

(***************************************************************************)
(* The bus.  A machine m is the pins and the log while a method runs:      *)
(* [cs, bus, exc].  The log holds one event per bus call:                  *)
(*   "cmd"   an SPI write of v made with D/C low   (send_cmd)              *)
(*   "data"  an SPI write of v made with D/C high  (send_data)             *)
(*   "reset" the RST pulse: v = <<level, ms, level, ms>>                   *)
(*   "wait"  a wait_busy: v = <<1>> when it returned, <<0>> when it raised *)
(***************************************************************************)
Ev(kind, val) == [k |-> kind, v |-> val]

\* dc.value(0); cs.value(0); spi.write(bytearray([cmd])); cs.value(1).
\* bytearray([x]) raises ValueError unless 0 <= x <= 255, with CS still low.
send_cmd(m, cmd) ==
    IF cmd \in Bytes
    THEN [m EXCEPT !.cs = 1, !.bus = Append(@, Ev("cmd", <<cmd>>))]
    ELSE [m EXCEPT !.cs = 0, !.exc = "ValueError"]

\* send_data with an int argument (isinstance(data, int))
send_data_int(m, data) ==
    IF data \in Bytes
    THEN [m EXCEPT !.cs = 1, !.bus = Append(@, Ev("data", <<data>>))]
    ELSE [m EXCEPT !.cs = 0, !.exc = "ValueError"]

\* send_data with a buffer argument
send_data_buf(m, data) ==
    [m EXCEPT !.cs = 1, !.bus = Append(@, Ev("data", data))]

reset(m) ==
    [m EXCEPT !.bus = Append(@, Ev("reset", <<0, RESET_MS, 1, RESET_MS>>))]

(***************************************************************************)
(* wait_busy.                                                              *)
(***************************************************************************)
\* A clock that a sleep does not advance.
ticks_add_Frozen(t, d) == t

ticks_add(t, d) == (t + d) % TICKS_PERIOD

ticks_diff(a, b) ==
    ((a - b + TICKS_PERIOD \div 2) % TICKS_PERIOD) - TICKS_PERIOD \div 2

\* A wait_busy that gives up as soon as the timeout is reached.
TimeoutExceeded_OrReached(now, start, timeout_ms) ==
    ticks_diff(now, start) >= timeout_ms

\* time.ticks_diff(time.ticks_ms(), start) > timeout_ms
TimeoutExceeded(now, start, timeout_ms) ==
    ticks_diff(now, start) > timeout_ms

\* The loop of wait_busy when the busy line reads 1 at the first highPolls
\* reads and 0 afterwards, every sleep taking exactly POLL_MS.
RECURSIVE WaitLoop(_, _, _, _)
WaitLoop(start, now, highPolls, timeout_ms) ==
    IF highPolls = 0 THEN [raised |-> FALSE, now |-> now]
    ELSE IF TimeoutExceeded(now, start, timeout_ms)
         THEN [raised |-> TRUE, now |-> now]
         ELSE WaitLoop(start, ticks_add(now, POLL_MS), highPolls - 1, timeout_ms)

\* The last read of the busy line that wait_busy() makes before it gives up.
LastPoll == BUSY_TIMEOUT_MS \div POLL_MS + 1

\* Busy-line behaviours offered to a call: the number of reads that find it high.
BusyOk == {0, LastPoll}

BusyStuck == LastPoll + 1

BusyPolls == BusyOk \cup {BusyStuck}

\* wait_busy() with the default timeout, by behaviour of the busy line.
BusyRaises == [hp \in BusyPolls |-> WaitLoop(0, 0, hp, BUSY_TIMEOUT_MS).raised]

wait_busy(m, hp) ==
    IF BusyRaises[hp]
    THEN [m EXCEPT !.bus = Append(@, Ev("wait", <<0>>)), !.exc = "BusyTimeout"]
    ELSE [m EXCEPT !.bus = Append(@, Ev("wait", <<1>>))]

(***************************************************************************)
(* A method body is the sequence of the bus calls it makes, one entry per  *)
(* statement; Run executes them in order and stops at the first exception. *)
(***************************************************************************)
Cmd(c) == [op |-> "cmd", a |-> <<c>>]

DataInt(d) == [op |-> "data_int", a |-> <<d>>]

DataBuf(d) == [op |-> "data_buf", a |-> d]

Wait(hp) == [op |-> "wait", a |-> <<hp>>]

Reset == [op |-> "reset", a |-> <<>>]

Exec(m, c) ==
    CASE c.op = "cmd"      -> send_cmd(m, c.a[1])
      [] c.op = "data_int" -> send_data_int(m, c.a[1])
      [] c.op = "data_buf" -> send_data_buf(m, c.a)
      [] c.op = "wait"     -> wait_busy(m, c.a[1])
      [] c.op = "reset"    -> reset(m)

RECURSIVE Run(_, _, _)
Run(m, calls, i) ==
    IF i > Len(calls) \/ m.exc # "" THEN m
    ELSE Run(Exec(m, calls[i]), calls, i + 1)

(***************************************************************************)
(* init: reset, software reset, configuration.  b gives the behaviour of   *)
(* the busy line at each of the three waits.                               *)
(***************************************************************************)
\* An init that sets the RAM window before the data entry mode.
init_WindowFirst(w, b) ==
    << Reset, Wait(b[1]),
       Cmd(\h12), Wait(b[2]),
       Cmd(\h01), DataInt(\hC7), DataInt(\h00), DataInt(\h00),
       Cmd(\h44), DataInt(\h00), DataInt((w \div 8) - 1),
       Cmd(\h11), DataInt(\h01),
       Cmd(\h45), DataInt(\hC7), DataInt(\h00), DataInt(\h00), DataInt(\h00),
       Cmd(\h3C), DataInt(\h01),
       Cmd(\h18), DataInt(\h80),
       Cmd(\h22), DataInt(\hB1),
       Cmd(\h20), Wait(b[3]) >>

init(w, b) ==
    << Reset, Wait(b[1]),
       Cmd(\h12), Wait(b[2]),
       Cmd(\h01), DataInt(\hC7), DataInt(\h00), DataInt(\h00),
       Cmd(\h11), DataInt(\h01),
       Cmd(\h44), DataInt(\h00), DataInt((w \div 8) - 1),
       Cmd(\h45), DataInt(\hC7), DataInt(\h00), DataInt(\h00), DataInt(\h00),
       Cmd(\h3C), DataInt(\h01),
       Cmd(\h18), DataInt(\h80),
       Cmd(\h22), DataInt(\hB1),
       Cmd(\h20), Wait(b[3]) >>

\* The busy line over one init: stuck at wait k (0: at none).
InitBusy == {[i \in 1..3 |-> IF i = k THEN BusyStuck ELSE d] :
                k \in 0..3, d \in BusyOk}

\* The machine a method starts with: the pins as they are, an empty log.
Mach == [cs |-> cs, bus |-> <<>>, exc |-> ""]

Op(name, arg, exc) == [name |-> name, arg |-> arg, exc |-> exc]

Live == state = "Constructed"

(***************************************************************************)
(* Construction.  Init is the object after lines 24-39 of __init__; the    *)
(* call of init() that ends __init__ is the action Construct.  When it     *)
(* raises, no object is returned and nothing more can be called.           *)
(***************************************************************************)
NoWait ==
    [pc |-> "none", start |-> 0, now |-> 0, prev |-> 0, timeout_ms |-> 0,
     polls |-> 0]

\* The fields as lines 24-39 leave them.  A pin made with Pin(n, Pin.OUT) has
\* the level the hardware gives it.
DriverInit ==
    /\ \E sz \in PanelSizes :
          /\ width = sz[1]
          /\ height = sz[2]
          /\ buffer = ZeroBytes((sz[1] * sz[2]) \div 8)
    /\ flip_horizontal = FALSE
    /\ flip_vertical = FALSE
    /\ rotation = 0
    /\ dirty = FALSE
    /\ cs \in {0, 1}
    /\ state = "Uninitialized"
    /\ draws = 0
    /\ lastOp = Op("new", 0, "")
    /\ bus = <<>>

\* No send_cmd or send_data is being stepped through.
NoSend ==
    [pc |-> "none", call |-> "", isInt |-> TRUE, arg |-> <<>>, dc |-> 0,
     selects |-> 0, sends |-> 0, wire |-> <<>>]

Init == DriverInit /\ wb = NoWait /\ xfer = NoSend

Construct ==
    /\ state = "Uninitialized"
    /\ \E b \in InitBusy :
          \E m \in {Run(Mach, init(width, b), 1)} :
              /\ cs' = m.cs
              /\ bus' = m.bus
              /\ state' = IF m.exc = "" THEN "Constructed" ELSE "Dead"
              /\ lastOp' = Op("__init__", 0, m.exc)
    /\ UNCHANGED <<width, height, buffer, flip_horizontal, flip_vertical,
                   rotation, dirty, draws, wb, xfer>>

(***************************************************************************)
(* The orientation transform of show (lines 146-172).                      *)
(***************************************************************************)
\* The orientation and geometry the transform reads.
Orient ==
    [w |-> width, h |-> height, fh |-> flip_horizontal, fv |-> flip_vertical,
     rot |-> rotation]

\* A transform that rotates first and flips afterwards.
DstCoord_RotateFirst(x, y, o) ==
    LET r  == CASE o.rot = 90  -> <<y, o.w - 1 - x>>
                [] o.rot = 180 -> <<o.w - 1 - x, o.h - 1 - y>>
                [] o.rot = 270 -> <<o.h - 1 - y, x>>
                [] OTHER       -> <<x, y>>
    IN  << IF o.fh THEN o.w - 1 - r[1] ELSE r[1],
           IF o.fv THEN o.h - 1 - r[2] ELSE r[2] >>

\* A transform whose rotation by 180 is a quarter turn.
DstCoord_HalfTurnIsQuarter(x, y, o) ==
    LET tx == IF o.fh THEN o.w - 1 - x ELSE x
        ty == IF o.fv THEN o.h - 1 - y ELSE y
    IN  CASE o.rot = 90  -> <<ty, o.w - 1 - tx>>
          [] o.rot = 180 -> <<ty, o.w - 1 - tx>>
          [] o.rot = 270 -> <<o.h - 1 - ty, tx>>
          [] OTHER       -> <<tx, ty>>

\* Lines 153-164: the destination of logical pixel (x, y).
DstCoord(x, y, o) ==
    LET tx == IF o.fh THEN o.w - 1 - x ELSE x
        ty == IF o.fv THEN o.h - 1 - y ELSE y
    IN  CASE o.rot = 90  -> <<ty, o.w - 1 - tx>>
          [] o.rot = 180 -> <<o.w - 1 - tx, o.h - 1 - ty>>
          [] o.rot = 270 -> <<o.h - 1 - ty, tx>>
          [] OTHER       -> <<tx, ty>>

\* Lines 149-150 and 166-167: where pass (x, y) of the loops reads and writes.
SrcIndex(x, y, o) == x \div 8 + y * (o.w \div 8)

SrcBit(x) == 7 - (x % 8)

DstIndex(x, y, o) == DstCoord(x, y, o)[1] \div 8 + DstCoord(x, y, o)[2] * (o.w \div 8)

DstBit(x, y, o) == 7 - (DstCoord(x, y, o)[1] % 8)

\* The passes of "for y in range(height): for x in range(width)" are numbered
\* in the order they run: pass p handles x = p % w, y = p \div w.
PassX(p, o) == p % o.w

PassY(p, o) == p \div o.w

SetMax(S) == CHOOSE e \in S : \A f \in S : f <= e

\* A function as a table of its values.
Tabulated(f) == f @@ <<>>

\* Every geometry and orientation a driver can have.
Geometries ==
    {[w |-> s[1], h |-> s[2], fh |-> a, fv |-> b, rot |-> r] :
        s \in PanelSizes, a \in BOOLEAN, b \in BOOLEAN, r \in {0, 90, 180, 270}}

\* What the loops of lines 147-172 do under geometry o, whatever the canvas
\* holds.  Every pass reads one bit of self.buffer and writes it (|= or &= ~)
\* to one bit of transformed, so when the loops end a bit of transformed holds
\* the pixel of the last pass that addressed it, and bytearray's initial 0
\* when no pass did.
\*   top   the largest byte index any pass uses, reading or writing
\*   last  for byte i and bit k of transformed, the last pass that writes it
\*         (-1: none)
Passes(o) ==
    LET all == 0..(o.w * o.h - 1)
        dst == Tabulated([p \in all |->
                   <<DstIndex(PassX(p, o), PassY(p, o), o),
                     DstBit(PassX(p, o), PassY(p, o), o)>>])
        top == SetMax({dst[p][1] : p \in all}
                      \cup {SrcIndex(PassX(p, o), PassY(p, o), o) : p \in all})
    IN  [top  |-> top,
         last |-> Tabulated([i \in 0..top |-> Tabulated([k \in 0..7 |->
                     LET ws == {p \in all : dst[p] = <<i, k>>}
                     IN  IF ws = {} THEN -1 ELSE SetMax(ws)])])]

LoopTable == Tabulated([o \in Geometries |-> Passes(o)])

\* pixel = (self.buffer[src_index] >> src_bit) & 0x01, for pass p
PixelOfPass(buf, p, o) ==
    BitOf(buf[SrcIndex(PassX(p, o), PassY(p, o), o) + 1], SrcBit(PassX(p, o)))

\* Lines 146-172.  An index past the end of self.buffer or of transformed
\* (both have len(self.buffer) bytes; no index is negative) raises IndexError
\* and ends show: ok is FALSE.  Otherwise out is transformed after the loops.
Transform(buf, o) ==
    LET t == LoopTable[o]
    IN  IF t.top >= Len(buf) THEN [ok |-> FALSE, out |-> <<>>]
        ELSE [ok  |-> TRUE,
              out |-> Tabulated([i \in 1..Len(buf) |->
                  LET bit(k) == IF i - 1 > t.top \/ t.last[i - 1][k] < 0 THEN 0
                                ELSE PixelOfPass(buf, t.last[i - 1][k], o)
                  IN  bit(0) + 2 * bit(1) + 4 * bit(2) + 8 * bit(3)
                      + 16 * bit(4) + 32 * bit(5) + 64 * bit(6) + 128 * bit(7)])]

(***************************************************************************)
(* show.                                                                   *)
(***************************************************************************)
\* The waveform byte of line 178.
Waveform(partial) == IF ~partial THEN \hF7 ELSE \hFF

\* Lines 174-180.
ShowCalls(transformed, partial, hp) ==
    << Cmd(\h24), DataBuf(transformed),
       Cmd(\h22), DataInt(Waveform(partial)),
       Cmd(\h20), Wait(hp) >>

\* A show without the dirty gate of lines 137-138.
show_NoGate(m, dty, tr, partial, hp) ==
    IF ~tr.ok THEN [m |-> [m EXCEPT !.exc = "IndexError"], dirty |-> dty]
    ELSE LET m1 == Run(m, ShowCalls(tr.out, partial, hp), 1)
         IN  [m |-> m1, dirty |-> IF m1.exc = "" THEN FALSE ELSE dty]

\* A show that resets the dirty flag before the refresh has completed.
show_CleanBeforeWait(m, dty, tr, partial, hp) ==
    IF ~dty THEN [m |-> m, dirty |-> dty]
    ELSE IF ~tr.ok THEN [m |-> [m EXCEPT !.exc = "IndexError"], dirty |-> dty]
    ELSE [m |-> Run(m, ShowCalls(tr.out, partial, hp), 1), dirty |-> FALSE]

\* show(partial) on a driver whose dirty flag is dty and whose transform
\* gives tr; the result is the machine and the dirty flag afterwards.
show(m, dty, tr, partial, hp) ==
    IF ~dty THEN [m |-> m, dirty |-> dty]
    ELSE IF ~tr.ok THEN [m |-> [m EXCEPT !.exc = "IndexError"], dirty |-> dty]
    ELSE LET m1 == Run(m, ShowCalls(tr.out, partial, hp), 1)
         IN  [m |-> m1, dirty |-> IF m1.exc = "" THEN FALSE ELSE dty]

Bit(b) == IF b THEN 1 ELSE 0

\* A show that transforms the canvas in place instead of into a temporary.
Show_InPlace ==
    /\ Live
    /\ \E tr \in {Transform(buffer, Orient)} :
          \E partial \in BOOLEAN, hp \in BusyPolls :
             \E r \in {show(Mach, dirty, tr, partial, hp)} :
                 /\ cs' = r.m.cs
                 /\ bus' = r.m.bus
                 /\ dirty' = r.dirty
                 /\ buffer' = IF dirty /\ tr.ok THEN tr.out ELSE buffer
                 /\ lastOp' = Op("show", Bit(partial), r.m.exc)
    /\ UNCHANGED <<width, height, flip_horizontal, flip_vertical,
                   rotation, state, draws, wb, xfer>>

Show ==
    /\ Live
    /\ \E tr \in {Transform(buffer, Orient)} :
          \E partial \in BOOLEAN, hp \in BusyPolls :
             \E r \in {show(Mach, dirty, tr, partial, hp)} :
                 /\ cs' = r.m.cs
                 /\ bus' = r.m.bus
                 /\ dirty' = r.dirty
                 /\ lastOp' = Op("show", Bit(partial), r.m.exc)
    /\ UNCHANGED <<width, height, buffer, flip_horizontal, flip_vertical,
                   rotation, state, draws, wb, xfer>>

(***************************************************************************)
(* clear, set_rotation, set_flip, sleep, wake.                             *)
(***************************************************************************)
ClearColors == {\hFF, \h00}

Clear ==
    /\ Live
    /\ \E color \in ClearColors :
          \E filled \in {[i \in 1..Len(buffer) |-> color]} :
             \E tr \in {Transform(filled, Orient)} :
                \E hp \in BusyPolls :
                   \E r \in {show(Mach, TRUE, tr, FALSE, hp)} :
                       /\ buffer' = filled
                       /\ cs' = r.m.cs
                       /\ bus' = r.m.bus
                       /\ dirty' = r.dirty
                       /\ lastOp' = Op("clear", color, r.m.exc)
    /\ draws' = 0
    /\ UNCHANGED <<width, height, flip_horizontal, flip_vertical, rotation,
                   state, wb, xfer>>

Angles == {0, 90, 180, 270, 45}

\* assert angle in (0, 90, 180, 270)
AngleAccepted(angle) == angle \in {0, 90, 180, 270}

SetRotation ==
    /\ Live
    /\ \E angle \in Angles :
          IF AngleAccepted(angle)
          THEN /\ rotation' = angle
               /\ dirty' = TRUE
               /\ lastOp' = Op("set_rotation", angle, "")
          ELSE /\ UNCHANGED <<rotation, dirty>>
               /\ lastOp' = Op("set_rotation", angle, "AssertionError")
    /\ bus' = <<>>
    /\ UNCHANGED <<width, height, buffer, flip_horizontal, flip_vertical,
                   cs, state, draws, wb, xfer>>

\* A set_flip that keeps the previous value of an axis it is not given.
SetFlip_KeepOmitted ==
    /\ Live
    /\ \E horizontal \in BOOLEAN, vertical \in BOOLEAN :
          /\ flip_horizontal' = (horizontal \/ flip_horizontal)
          /\ flip_vertical' = (vertical \/ flip_vertical)
          /\ lastOp' = Op("set_flip", 2 * Bit(vertical) + Bit(horizontal), "")
    /\ dirty' = TRUE
    /\ bus' = <<>>
    /\ UNCHANGED <<width, height, buffer, rotation, cs, state, draws, wb, xfer>>

SetFlip ==
    /\ Live
    /\ \E horizontal \in BOOLEAN, vertical \in BOOLEAN :
          /\ flip_horizontal' = horizontal
          /\ flip_vertical' = vertical
          /\ lastOp' = Op("set_flip", 2 * Bit(vertical) + Bit(horizontal), "")
    /\ dirty' = TRUE
    /\ bus' = <<>>
    /\ UNCHANGED <<width, height, buffer, rotation, cs, state, draws, wb, xfer>>

\* A sleep that waits for the busy line after the deep-sleep command.
sleep_ThenWait == << Cmd(\h10), DataInt(\h01), Wait(BusyStuck) >>

sleep == << Cmd(\h10), DataInt(\h01) >>

Sleep ==
    /\ Live
    /\ \E m \in {Run(Mach, sleep, 1)} :
          /\ cs' = m.cs
          /\ bus' = m.bus
          /\ lastOp' = Op("sleep", 0, m.exc)
    /\ UNCHANGED <<width, height, buffer, flip_horizontal, flip_vertical,
                   rotation, dirty, state, draws, wb, xfer>>

Wake ==
    /\ Live
    /\ \E b \in InitBusy :
          \E m \in {Run(Mach, init(width, b), 1)} :
              /\ cs' = m.cs
              /\ bus' = m.bus
              /\ dirty' = IF m.exc = "" THEN TRUE ELSE dirty
              /\ lastOp' = Op("wake", 0, m.exc)
    /\ UNCHANGED <<width, height, buffer, flip_horizontal, flip_vertical,
                   rotation, state, draws, wb, xfer>>

(***************************************************************************)
(* The drawing primitives.  self.fb is a framebuf.FrameBuffer over the     *)
(* memory of self.buffer, MONO_HLSB, width x height: a primitive sets the  *)
(* pixels of its shape that lie on the canvas and clips the rest.  A byte  *)
(* the bytearray no longer holds (see load_pbm) is not part of self.buffer.*)
(***************************************************************************)
OnCanvas(q, w, h) == q[1] >= 0 /\ q[1] < w /\ q[2] >= 0 /\ q[2] < h

\* MONO_HLSB: pixel (x, y) is bit 7 - (x & 7) of byte (x + y * stride) >> 3
FbIndex(q, w) == (q[1] + q[2] * w) \div 8

FbSetPixels(buf, pix, color, w, h) ==
    LET on == {q \in pix : OnCanvas(q, w, h)}
    IN  Tabulated([i \in 1..Len(buf) |->
            LET ks     == {7 - (q[1] % 8) : q \in {r \in on : FbIndex(r, w) = i - 1}}
                bit(k) == IF k \in ks THEN color ELSE BitOf(buf[i], k)
            IN  bit(0) + 2 * bit(1) + 4 * bit(2) + 8 * bit(3)
                + 16 * bit(4) + 32 * bit(5) + 64 * bit(6) + 128 * bit(7)])

RectPixels(x, y, w, h) ==
    {<<a, b>> : a \in x..(x + w - 1), b \in y..(y + h - 1)}

\* framebuf.rect: the four sides
OutlinePixels(x, y, w, h) ==
    RectPixels(x, y, w, 1) \cup RectPixels(x, y + h - 1, w, 1)
    \cup RectPixels(x, y, 1, h) \cup RectPixels(x + w - 1, y, 1, h)

Abs(v) == IF v < 0 THEN -v ELSE v

Sgn(v) == IF v > 0 THEN 1 ELSE -1

\* framebuf.line: Bresenham from (x1, y1) to (x2, y2), both ends drawn
LinePixels(x1, y1, x2, y2) ==
    LET dx == Abs(x2 - x1)
        dy == Abs(y2 - y1)
        sx == Sgn(x2 - x1)
        sy == Sgn(y2 - y1)
    IN  IF dx = 0 /\ dy = 0 THEN {<<x1, y1>>}
        ELSE IF dy > dx
        THEN {<<x1 + sx * ((2 * i * dx + dy) \div (2 * dy)), y1 + sy * i>> : i \in 0..dy}
        ELSE {<<x1 + sx * i, y1 + sy * ((2 * i * dy + dx) \div (2 * dx))>> : i \in 0..dx}

\* The glyph rasterizer is outside the driver: a character stands for the set
\* of pixels of its 8x8 cell that the font sets.
Font ==
    [c \in {"I", "L"} |->
        IF c = "I" THEN {<<3, r>> : r \in 0..6}
        ELSE {<<1, r>> : r \in 0..6} \cup {<<k, 6>> : k \in 1..5}]

\* framebuf.text: one 8-pixel-wide cell per character, foreground only
TextPixels(x, y, text) ==
    UNION {{<<x + 8 * (i - 1) + q[1], y + q[2]>> : q \in Font[text[i]]} :
              i \in 1..Len(text)}

\* Arguments offered to the primitives; the last component is the colour.
TextArgs == {<<2, 3, <<"L", "I">>, 1>>}

RectArgs == {<<0, 1, 5, 4, 1>>}

FillRectArgs == {<<1, 2, 3, 2, 1>>, <<-2, 6, 4, 20, 0>>}

LineArgs == {<<7, 0, 2, 3, 1>>}

\* A primitive that forgets to set the dirty flag.
Drawn_KeepDirty(name, newbuf) ==
    /\ Live
    /\ draws < MaxDraws
    /\ draws' = draws + 1
    /\ buffer' = newbuf
    /\ dirty' = dirty
    /\ lastOp' = Op(name, 0, "")
    /\ bus' = <<>>
    /\ UNCHANGED <<width, height, flip_horizontal, flip_vertical, rotation,
                   cs, state, wb, xfer>>

\* What every primitive does after the framebuf call: self.dirty = True.
Drawn(name, newbuf) ==
    /\ Live
    /\ draws < MaxDraws
    /\ draws' = draws + 1
    /\ buffer' = newbuf
    /\ dirty' = TRUE
    /\ lastOp' = Op(name, 0, "")
    /\ bus' = <<>>
    /\ UNCHANGED <<width, height, flip_horizontal, flip_vertical, rotation,
                   cs, state, wb, xfer>>

DrawText ==
    \E a \in TextArgs :
       Drawn("draw_text",
             FbSetPixels(buffer, TextPixels(a[1], a[2], a[3]), a[4], width, height))

DrawRect ==
    \E a \in RectArgs :
       Drawn("draw_rect",
             FbSetPixels(buffer, OutlinePixels(a[1], a[2], a[3], a[4]), a[5],
                         width, height))

DrawFillRect ==
    \E a \in FillRectArgs :
       Drawn("draw_fill_rect",
             FbSetPixels(buffer, RectPixels(a[1], a[2], a[3], a[4]), a[5],
                         width, height))

DrawLine ==
    \E a \in LineArgs :
       Drawn("draw_line",
             FbSetPixels(buffer, LinePixels(a[1], a[2], a[3], a[4]), a[5],
                         width, height))

(***************************************************************************)
(* draw_image and load_pbm.                                                *)
(***************************************************************************)
\* The bytes of a test picture of n bytes.
TestImage(n) == [i \in 1..n |-> (i * 37 + 11) % 256]

\* The size of the canvas the constructor allocates.
CanvasBytes == (width * height) \div 8

\* The buffers offered to draw_image: one of the canvas' size, one a byte short.
ImageArgs == {TestImage(CanvasBytes), TestImage(CanvasBytes - 1)}

\* len(img_buf) != len(self.buffer) raises ValueError
ImageAccepted(img_buf, buf) == Len(img_buf) = Len(buf)

DrawImage ==
    /\ Live
    /\ \E img_buf \in ImageArgs :
          IF ImageAccepted(img_buf, buffer)
          THEN /\ buffer' = img_buf
               /\ dirty' = TRUE
               /\ draws' = 0
               /\ lastOp' = Op("draw_image", Len(img_buf), "")
          ELSE /\ UNCHANGED <<buffer, dirty, draws>>
               /\ lastOp' = Op("draw_image", Len(img_buf),
                               "ValueError: Image buffer size mismatch")
    /\ bus' = <<>>
    /\ UNCHANGED <<width, height, flip_horizontal, flip_vertical, rotation,
                   cs, state, wb, xfer>>

\* A file is its first line, the number of '#' lines that follow, the tokens
\* of the first line that does not start with '#', and the bytes after it.
PbmFile(magic, comments, dims, data) ==
    [magic |-> magic, comments |-> comments, dims |-> dims, data |-> data]

PbmFiles ==
    { PbmFile("P4", 0, <<width, height>>, TestImage(CanvasBytes)),
      PbmFile("P4", 2, <<width, height>>, TestImage(CanvasBytes) \o <<1, 2>>),
      PbmFile("P4", 1, <<width, height>>, TestImage(CanvasBytes - 1)),
      PbmFile("P1", 0, <<width, height>>, TestImage(CanvasBytes)),
      PbmFile("P4", 0, <<width + 8, height>>, TestImage(CanvasBytes)),
      PbmFile("P4", 0, <<width, height - 8>>, TestImage(CanvasBytes)),
      PbmFile("P4", 0, <<width>>, TestImage(CanvasBytes)) }

\* f.read(n): at most n bytes
FileRead(data, n) == SubSeq(data, 1, IF Len(data) < n THEN Len(data) ELSE n)

\* A load_pbm that copies the payload before it compares the dimensions.
load_pbm_CopyFirst(buf, f, w, h) ==
    IF f.magic # "P4"
    THEN [exc |-> "ValueError: Unsupported PBM format", buffer |-> buf]
    ELSE IF Len(f.dims) # 2
    THEN [exc |-> "ValueError", buffer |-> buf]
    ELSE IF f.dims[1] # w \/ f.dims[2] # h
    THEN [exc |-> "ValueError: Image size mismatch",
          buffer |-> FileRead(f.data, (w * h) \div 8)]
    ELSE [exc |-> "", buffer |-> FileRead(f.data, (w * h) \div 8)]

\* Lines 194-204: the exception load_pbm ends with ("" when none), and the
\* canvas afterwards.  self.buffer[:] = b replaces the whole content of the
\* bytearray by b, whatever the length of b.
load_pbm(buf, f, w, h) ==
    IF f.magic # "P4"
    THEN [exc |-> "ValueError: Unsupported PBM format", buffer |-> buf]
    ELSE IF Len(f.dims) # 2
    THEN [exc |-> "ValueError", buffer |-> buf]
    ELSE IF f.dims[1] # w \/ f.dims[2] # h
    THEN [exc |-> "ValueError: Image size mismatch", buffer |-> buf]
    ELSE [exc |-> "", buffer |-> FileRead(f.data, (w * h) \div 8)]

LoadPbm ==
    /\ Live
    /\ \E f \in PbmFiles :
          \E r \in {load_pbm(buffer, f, width, height)} :
              /\ buffer' = r.buffer
              /\ dirty' = IF r.exc = "" THEN TRUE ELSE dirty
              /\ draws' = IF r.exc = "" THEN 0 ELSE draws
              /\ lastOp' = Op("load_pbm", Len(f.data), r.exc)
    /\ bus' = <<>>
    /\ UNCHANGED <<width, height, flip_horizontal, flip_vertical, rotation,
                   cs, state, wb, xfer>>

\* A waveform table is an opaque payload.
SampleLut == <<\h80, \h48, \h40, \h00>>

load_lut(lut_data) == << Cmd(\h32), DataBuf(lut_data) >>

LoadLut ==
    /\ Live
    /\ \E m \in {Run(Mach, load_lut(SampleLut), 1)} :
          /\ cs' = m.cs
          /\ bus' = m.bus
          /\ lastOp' = Op("load_lut", 0, m.exc)
    /\ UNCHANGED <<width, height, buffer, flip_horizontal, flip_vertical,
                   rotation, dirty, state, draws, wb, xfer>>

Next ==
    \/ Construct
    \/ Show
    \/ Clear
    \/ SetRotation
    \/ SetFlip
    \/ Sleep
    \/ Wake
    \/ DrawText
    \/ DrawRect
    \/ DrawFillRect
    \/ DrawLine
    \/ DrawImage
    \/ LoadPbm
    \/ LoadLut

Spec == Init /\ [][Next]_vars

(***************************************************************************)
(* SpecWait: one call of wait_busy(timeout_ms), a step per statement.      *)
(* wb is the activation: the program counter, start, the clock (now), the  *)
(* clock at the previous test of the busy line (prev), the argument and    *)
(* the number of reads of the busy line so far.  The busy line is the      *)
(* panel's: any read may find it high or low.                              *)
(***************************************************************************)
WaitTimeouts == {BUSY_TIMEOUT_MS, 2 * POLL_MS, 3 * POLL_MS - 1}

\* Clock values at the call: well inside the period, and just before it wraps.
StartTicks == {0, TICKS_PERIOD - 2 * POLL_MS}

\* The reads of the busy line are counted up to MaxPolls.
MaxPolls == 150

InitWait ==
    /\ DriverInit
    /\ width = 16 /\ height = 16 /\ cs = 1
    /\ \E t0 \in StartTicks, T \in WaitTimeouts :
          wb = [pc |-> "call", start |-> 0, now |-> t0, prev |-> t0,
                timeout_ms |-> T, polls |-> 0]
    /\ xfer = NoSend

\* line 73: start = time.ticks_ms()
WaitStart ==
    /\ wb.pc = "call"
    /\ wb' = [wb EXCEPT !.pc = "test", !.start = wb.now]
    /\ UNCHANGED <<driverVars, xfer>>

\* line 74: while self.busy.value() == 1
WaitTest ==
    /\ wb.pc = "test"
    /\ \E level \in {0, 1} :
          wb' = [wb EXCEPT !.pc = IF level = 1 THEN "check" ELSE "returned",
                           !.polls = IF @ < MaxPolls THEN @ + 1 ELSE @]
    /\ UNCHANGED <<driverVars, xfer>>

\* lines 75-76: if time.ticks_diff(time.ticks_ms(), start) > timeout_ms: raise
WaitCheck ==
    /\ wb.pc = "check"
    /\ wb' = [wb EXCEPT !.pc = IF TimeoutExceeded(wb.now, wb.start, wb.timeout_ms)
                               THEN "raised" ELSE "sleep"]
    /\ UNCHANGED <<driverVars, xfer>>

\* line 77: time.sleep_ms(50)
WaitSleep ==
    /\ wb.pc = "sleep"
    /\ \E j \in 0..MaxJitter :
          wb' = [wb EXCEPT !.pc = "test", !.prev = wb.now,
                           !.now = ticks_add(wb.now, POLL_MS + j)]
    /\ UNCHANGED <<driverVars, xfer>>

NextWait ==
    \/ WaitStart
    \/ WaitTest
    \/ WaitCheck
    \/ WaitSleep

SpecWait == InitWait /\ [][NextWait]_vars

\* The interpreter runs the next statement of the single thread.
FairWait == SpecWait /\ WF_vars(NextWait)

\* Milliseconds since wait_busy was entered.
Elapsed == ticks_diff(wb.now, wb.start)

(***************************************************************************)
(* SpecPins: calls of send_cmd and send_data, a step per statement.  cs is *)
(* the chip-select pin; xfer holds the statement reached, the call and its   *)
(* argument, the level of the D/C pin, the number of times chip-select was *)
(* pulled low, the number of calls that returned, and the wire: one entry  *)
(* per spi.write, with the bytes written and the levels of chip-select and *)
(* D/C during the write.                                                   *)
(***************************************************************************)
\* Calls that may still be started.
MaxSends == 2

\* A driver that leaves D/C high for commands too.
DcLevel_AlwaysData(call) == 1

\* self.dc.value(0) in send_cmd (line 56), self.dc.value(1) in send_data
\* (line 64).
DcLevel(call) == IF call = "send_cmd" THEN 0 ELSE 1

\* What spi.write transmits: bytearray([data]) for an int, the buffer itself
\* otherwise (lines 58, 66-69).
SpiBytes(isInt, arg) == IF isInt THEN <<arg[1]>> ELSE arg

\* The calls offered: opcodes, data bytes, and buffers of several lengths.
SendArgs ==
    {[call |-> "send_cmd", isInt |-> TRUE, arg |-> <<c>>] : c \in {\h24, \h10}}
    \cup {[call |-> "send_data", isInt |-> TRUE, arg |-> <<d>>] : d \in {\h01, \hF7}}
    \cup {[call |-> "send_data", isInt |-> FALSE, arg |-> b] :
             b \in {SampleLut, TestImage(32)}}

InitPins ==
    /\ DriverInit
    /\ width = 16 /\ height = 16
    /\ wb = NoWait
    /\ \E level \in {0, 1} :
          xfer = [NoSend EXCEPT !.pc = "idle", !.dc = level]

pinFrame == <<width, height, buffer, flip_horizontal, flip_vertical, rotation,
              dirty, state, draws, lastOp, bus, wb>>

\* send_cmd(cmd) or send_data(data) is called.
PinCall ==
    /\ xfer.pc = "idle"
    /\ xfer.sends < MaxSends
    /\ \E a \in SendArgs :
          xfer' = [xfer EXCEPT !.pc = "dc", !.call = a.call, !.isInt = a.isInt,
                           !.arg = a.arg]
    /\ UNCHANGED <<cs, pinFrame>>

\* lines 56, 64: self.dc.value(..)
PinSetDC ==
    /\ xfer.pc = "dc"
    /\ xfer' = [xfer EXCEPT !.pc = "cs", !.dc = DcLevel(xfer.call)]
    /\ UNCHANGED <<cs, pinFrame>>

\* lines 57, 65: self.cs.value(0)
PinSelect ==
    /\ xfer.pc = "cs"
    /\ cs' = 0
    /\ xfer' = [xfer EXCEPT !.pc = "write", !.selects = @ + 1]
    /\ UNCHANGED pinFrame

\* lines 58, 66-69: self.spi.write(..)
PinWrite ==
    /\ xfer.pc = "write"
    /\ xfer' = [xfer EXCEPT !.pc = "release",
                        !.wire = Append(@, [call  |-> xfer.call, cs |-> cs,
                                            dc    |-> xfer.dc,
                                            bytes |-> SpiBytes(xfer.isInt, xfer.arg)])]
    /\ UNCHANGED <<cs, pinFrame>>

\* lines 59, 70: self.cs.value(1)
PinRelease ==
    /\ xfer.pc = "release"
    /\ cs' = 1
    /\ xfer' = [xfer EXCEPT !.pc = "idle", !.sends = @ + 1]
    /\ UNCHANGED pinFrame

NextPins ==
    \/ PinCall
    \/ PinSetDC
    \/ PinSelect
    \/ PinWrite
    \/ PinRelease

SpecPins == InitPins /\ [][NextPins]_vars

(***************************************************************************)
(* Properties.  lastOp names the call that produced the state and bus is   *)
(* what that call put on the bus, so a step whose lastOp' is "show" is a   *)
(* call of show, and bus' is the traffic of that call.                     *)
(***************************************************************************)
\* The log of one write-and-refresh: RAM write, payload, display update
\* control with the waveform byte, master activation, busy wait.
ShowLog(payload, wave, ok) ==
    << Ev("cmd", <<\h24>>), Ev("data", payload),
       Ev("cmd", <<\h22>>), Ev("data", <<wave>>),
       Ev("cmd", <<\h20>>), Ev("wait", <<ok>>) >>

WaveOf(partialArg) == IF partialArg = 0 THEN \hF7 ELSE \hFF

IsShowLog(b, partialArg) ==
    /\ Len(b) = 6
    /\ \E ok \in {0, 1} : b = ShowLog(b[2].v, WaveOf(partialArg), ok)

\* C1 (as the code has it): a show on a driver that is not dirty transfers
\* nothing, polls nothing, raises nothing and changes no field; and a show
\* that directly follows a show that returned normally performs no bus I/O.
C1_ShowIsNoOpWhenClean ==
    [][ lastOp'.name = "show" =>
          /\ ~dirty => /\ bus' = <<>>
                       /\ lastOp'.exc = ""
                       /\ UNCHANGED <<buffer, flip_horizontal, flip_vertical,
                                      rotation, dirty, cs, width, height>>
          /\ (lastOp.name = "show" /\ lastOp.exc = "") => bus' = <<>>
      ]_vars

\* Something was drawn, shown, and shown again: the last show did nothing.
C1_Witness ==
    /\ lastOp.name = "show" /\ lastOp.exc = ""
    /\ bus = <<>> /\ ~dirty
    /\ buffer # ZeroBytes(Len(buffer))

\* C1 as stated: a show on a clean driver is a no-op, and of two consecutive
\* show calls only the first performs bus I/O.
C1_Original ==
    [][ lastOp'.name = "show" =>
          /\ ~dirty => bus' = <<>> /\ UNCHANGED <<buffer, dirty>>
          /\ lastOp.name = "show" => bus' = <<>>
      ]_vars

Primitives ==
    {"draw_text", "draw_rect", "draw_fill_rect", "draw_line", "draw_image",
     "load_pbm", "set_rotation", "set_flip"}

\* C2 (as the code has it): after a draw_*, draw_image, load_pbm,
\* set_rotation or set_flip call that returns normally the dirty flag is
\* true; after clear it is true only when the show that ends clear raised,
\* and false, with the cleared frame sent, when clear returned normally.
C2_DirtyAfterMutation ==
    /\ (lastOp.name \in Primitives /\ lastOp.exc = "") => dirty
    /\ lastOp.name = "clear" => (dirty <=> lastOp.exc # "")
    /\ (lastOp.name = "clear" /\ lastOp.exc = "") =>
           IsShowLog(bus, 0) /\ bus[6] = Ev("wait", <<1>>)

\* A primitive has returned and left the flag set.
C2_Witness ==
    /\ lastOp.name = "draw_line" /\ lastOp.exc = ""
    /\ dirty

\* C2 as stated: after any draw, clear, orientation or load call the dirty
\* flag is true.
C2_Original ==
    (lastOp.name \in Primitives \cup {"clear"} /\ lastOp.exc = "") => dirty

\* C3: the dirty flag goes from true to false only in a step that is a show
\* (directly, or the show that ends clear) which returned normally after its
\* complete sequence and a busy wait that succeeded; a show whose busy wait
\* timed out leaves the flag true, and the show that follows it sends the
\* whole write-and-refresh sequence again.
C3_DirtyClearedOnlyByCompletedShow ==
    [][ /\ (dirty /\ ~dirty') =>
              /\ lastOp'.name \in {"show", "clear"}
              /\ lastOp'.exc = ""
              /\ IsShowLog(bus', IF lastOp'.name = "show" THEN lastOp'.arg ELSE 0)
              /\ bus'[6] = Ev("wait", <<1>>)
        /\ (lastOp'.name = "show" /\ lastOp'.exc = "BusyTimeout") =>
              /\ dirty /\ dirty'
              /\ IsShowLog(bus', lastOp'.arg)
              /\ bus'[6] = Ev("wait", <<0>>)
        /\ (lastOp.name = "show" /\ lastOp.exc = "BusyTimeout"
               /\ lastOp'.name = "show") =>
              /\ IsShowLog(bus', lastOp'.arg)
              /\ bus'[2] = bus[2]
      ]_vars

\* A show timed out on a drawn canvas and the flag is still set.
C3_Witness ==
    /\ lastOp.name = "show" /\ lastOp.exc = "BusyTimeout"
    /\ dirty
    /\ buffer # ZeroBytes(Len(buffer))

\* C4 as stated, on the square panels the transform is written for: every
\* show on a dirty driver emits 0x24, the transformed buffer as data, 0x22
\* with one data byte, 0x20 and a busy wait, in that order and nothing else.
C4_Original ==
    [][ (lastOp'.name = "show" /\ dirty /\ width = height) =>
            IsShowLog(bus', lastOp'.arg) /\ Len(bus'[2].v) = CanvasBytes
      ]_vars

IsTransfer(e) == e.k \in {"cmd", "data"}

\* A command with its byte; a data transfer with its number of bytes.
Shape(e) == IF e.k = "cmd" THEN <<"cmd", e.v[1]>> ELSE <<"data", Len(e.v)>>

InitTransfers ==
    << <<"cmd", \h12>>,
       <<"cmd", \h01>>, <<"data", 1>>, <<"data", 1>>, <<"data", 1>>,
       <<"cmd", \h11>>, <<"data", 1>>,
       <<"cmd", \h44>>, <<"data", 1>>, <<"data", 1>>,
       <<"cmd", \h45>>, <<"data", 1>>, <<"data", 1>>, <<"data", 1>>, <<"data", 1>>,
       <<"cmd", \h3C>>, <<"data", 1>>,
       <<"cmd", \h18>>, <<"data", 1>>,
       <<"cmd", \h22>>, <<"data", 1>>,
       <<"cmd", \h20>> >>

\* C5: what init puts on the bus (from the constructor or from wake) starts
\* with the reset pulse, low then high; its commands and data are, in
\* order and with no other command, 0x12, 0x01 + 3 bytes, 0x11 + 1, 0x44 + 2,
\* 0x45 + 4, 0x3C + 1, 0x18 + 1, 0x22 + 0xB1, 0x20; a busy wait follows 0x12
\* and a busy wait ends the sequence; init stops at the first wait that
\* times out, and the constructor returns an object only when every wait
\* succeeded.
C5_InitSequence ==
    /\ lastOp.name \in {"__init__", "wake"} =>
         LET t     == SelectSeq(bus, IsTransfer)
             shape == [i \in 1..Len(t) |-> Shape(t[i])]
             n     == Len(bus)
         IN  /\ n >= 2
             /\ bus[1].k = "reset" /\ bus[1].v[1] = 0 /\ bus[1].v[3] = 1
             /\ \A i \in 2..n : bus[i].k # "reset"
             /\ Len(shape) <= Len(InitTransfers)
             /\ shape = SubSeq(InitTransfers, 1, Len(shape))
             /\ \A i \in 1..n :
                   /\ bus[i] = Ev("cmd", <<\h12>>) => i < n /\ bus[i + 1].k = "wait"
                   /\ bus[i] = Ev("cmd", <<\h22>>) =>
                          i < n /\ bus[i + 1] = Ev("data", <<\hB1>>)
                   /\ bus[i] = Ev("wait", <<0>>) => i = n
             /\ bus[n].k = "wait"
             /\ lastOp.exc = "" <=> (shape = InitTransfers /\ bus[n] = Ev("wait", <<1>>))
             /\ lastOp.exc # "" => lastOp.exc = "BusyTimeout"
    /\ lastOp.name = "__init__" => (state = "Constructed" <=> lastOp.exc = "")
    /\ state = "Uninitialized" <=> lastOp.name = "new"

\* The constructor has returned: the whole sequence is on the bus.
C5_Witness ==
    /\ lastOp.name = "__init__" /\ state = "Constructed"
    /\ Len(bus) = 26

\* C6 as stated, on the square panels and with a busy line that deasserts:
\* clear(0xFF) followed by show(full) puts on the bus a RAM write whose
\* payload is the whole canvas, every byte 0xFF, with waveform byte 0xF7.
C6_Original ==
    [][ ( /\ lastOp.name = "clear" /\ lastOp.arg = \hFF
          /\ lastOp'.name = "show" /\ lastOp'.arg = 0
          /\ lastOp.exc # "BusyTimeout" /\ lastOp'.exc # "BusyTimeout"
          /\ width = height ) =>
            \E b \in {bus, bus'} :
                /\ IsShowLog(b, 0)
                /\ Len(b[2].v) > 0
                /\ \A i \in 1..Len(b[2].v) : b[2].v[i] = \hFF
      ]_vars

\* The physical position of logical pixel (x, y): horizontal flip, then
\* vertical flip, then rotation.
PhysicalOf(x, y, w, h, fh, fv, rot) ==
    LET fx == IF fh THEN w - 1 - x ELSE x
        fy == IF fv THEN h - 1 - y ELSE y
    IN  IF rot = 90 THEN <<fy, w - 1 - fx>>
        ELSE IF rot = 180 THEN <<w - 1 - fx, h - 1 - fy>>
        ELSE IF rot = 270 THEN <<h - 1 - fy, fx>>
        ELSE <<fx, fy>>

\* The bit of pixel (x, y) in a row-major, MSB-first buffer of rows of w pixels.
PixelAt(buf, x, y, w) == BitOf(buf[x \div 8 + y * (w \div 8) + 1], 7 - (x % 8))

\* A call that put a frame on the bus: show, or the show that ends clear.
FrameSent == lastOp.name \in {"show", "clear"} /\ Len(bus) = 6

\* C7: on a square canvas, in the payload a show writes to RAM the bit at
\* the physical position of (x, y) is the canvas bit at (x, y), for every
\* pixel and whatever the flips and the rotation; on 200 x 200 at rotation
\* 90 without flips (0, 0) goes to (0, 199) and (199, 0) to (0, 0).
C7_PayloadIsTransformedCanvas ==
    /\ (FrameSent /\ width = height) =>
          /\ Len(bus[2].v) = CanvasBytes
          /\ \A x \in 0..(width - 1), y \in 0..(height - 1) :
                LET d == PhysicalOf(x, y, width, height, flip_horizontal,
                                    flip_vertical, rotation)
                IN  PixelAt(bus[2].v, d[1], d[2], width) = PixelAt(buffer, x, y, width)
    /\ LET o == [w |-> DefaultSize, h |-> DefaultSize, fh |-> FALSE,
                 fv |-> FALSE, rot |-> 90]
       IN  /\ DstCoord(0, 0, o) = <<0, DefaultSize - 1>>
           /\ DstCoord(DefaultSize - 1, 0, o) = <<0, 0>>

\* A picture was shown flipped and turned by 90: the payload is not the
\* canvas.
C7_Witness ==
    /\ lastOp.name = "show" /\ Len(bus) = 6
    /\ width = height
    /\ rotation = 90 /\ flip_horizontal /\ ~flip_vertical
    /\ buffer = TestImage(CanvasBytes)
    /\ bus[2].v # buffer

\* C8: on a square canvas and for the buffer of any reachable state, the
\* transform with rotation 0 and no flip returns the buffer; applied twice
\* with the same flips at rotation 0, or twice at rotation 180, it returns
\* the buffer; so the payload of a show at rotation 0 or 180, transformed
\* again, is the canvas.
C8_TransformRoundTrip ==
    (width = height /\ Len(buffer) = CanvasBytes) =>
        /\ Transform(buffer, [w |-> width, h |-> height, fh |-> FALSE,
                              fv |-> FALSE, rot |-> 0]) = [ok |-> TRUE, out |-> buffer]
        /\ \A fh \in BOOLEAN, fv \in BOOLEAN, rot \in {0, 180} :
              LET o == [w |-> width, h |-> height, fh |-> fh, fv |-> fv, rot |-> rot]
                  t == Transform(buffer, o)
              IN  t.ok /\ Transform(t.out, o) = [ok |-> TRUE, out |-> buffer]
        /\ (FrameSent /\ rotation \in {0, 180}) =>
              Transform(bus[2].v, Orient).out = buffer

\* A picture was shown turned by 180: the payload differs from the canvas
\* and transforms back into it.
C8_Witness ==
    /\ lastOp.name = "show" /\ Len(bus) = 6
    /\ width = height
    /\ rotation = 180 /\ ~flip_horizontal /\ ~flip_vertical
    /\ buffer = TestImage(CanvasBytes)
    /\ bus[2].v # buffer
    /\ Transform(bus[2].v, Orient).out = buffer

\* C9 (as the code has it): wait_busy on a line that stays high does not
\* raise at a poll where the time since entry is at most timeout_ms, at the
\* boundary itself included: it sleeps for another period.  It raises at
\* the first poll where the elapsed time is strictly greater than
\* timeout_ms, which is at most one sleep after the boundary.
C9_RaisesOnlyPastTimeout ==
    /\ wb.pc = "sleep" => Elapsed <= wb.timeout_ms
    /\ wb.pc = "raised" =>
          /\ Elapsed > wb.timeout_ms
          /\ ticks_diff(wb.prev, wb.start) <= wb.timeout_ms
          /\ Elapsed <= wb.timeout_ms + POLL_MS + MaxJitter
          /\ wb.polls >= 2

\* The default timeout on a line that never falls: raised one poll period
\* after the boundary, at the 102nd read of the line.
C9_Witness ==
    /\ wb.pc = "raised"
    /\ wb.timeout_ms = BUSY_TIMEOUT_MS
    /\ Elapsed = BUSY_TIMEOUT_MS + POLL_MS
    /\ wb.polls = BUSY_TIMEOUT_MS \div POLL_MS + 2

\* C9 as stated: no timeout at a poll where the elapsed time is less than
\* timeout_ms, and the error is raised at the poll where the elapsed time
\* reaches timeout_ms.
C9_Original ==
    /\ wb.pc = "raised" => Elapsed >= wb.timeout_ms
    /\ wb.pc = "sleep" => Elapsed < wb.timeout_ms

\* The inputs the driver rejects, by the call and its argument.
RejectedCall(op, buf) ==
    \/ op.name = "set_rotation" /\ op.arg \notin {0, 90, 180, 270}
    \/ op.name = "draw_image" /\ op.arg # Len(buf)
    \/ op.name = "load_pbm"
         /\ op.exc \in {"ValueError: Unsupported PBM format",
                        "ValueError: Image size mismatch"}

\* C10: a set_rotation with an angle outside {0, 90, 180, 270}, a
\* draw_image with a buffer of another length than the canvas, a load_pbm
\* of a file that is not P4 or whose dimensions are not the panel's, raise
\* and leave buffer, flips, rotation and dirty flag as they were, with no
\* bus traffic; any of these calls that raises changes nothing; and the
\* rotation is 0, 90, 180 or 270 in every reachable state.
C10_RejectedInputsChangeNothing ==
    [][ /\ RejectedCall(lastOp', buffer) => lastOp'.exc # ""
        /\ (lastOp'.name \in {"set_rotation", "draw_image", "load_pbm"}
               /\ lastOp'.exc # "") =>
              /\ UNCHANGED <<buffer, flip_horizontal, flip_vertical, rotation,
                             dirty, width, height>>
              /\ bus' = <<>>
        /\ rotation \in {0, 90, 180, 270}
        /\ rotation' \in {0, 90, 180, 270}
      ]_vars

\* A file of the wrong size was refused on a driver that shows a picture
\* turned by 90.
C10_Witness ==
    /\ lastOp.name = "load_pbm"
    /\ lastOp.exc = "ValueError: Image size mismatch"
    /\ buffer = TestImage(CanvasBytes)
    /\ rotation = 90
    /\ ~dirty

\* C11 as stated: in every reachable state, whatever was drawn or loaded,
\* the canvas buffer has exactly width * height / 8 bytes and the panel
\* size is the one given at construction.
C11_Original ==
    /\ Len(buffer) = (width * height) \div 8
    /\ <<width, height>> \in PanelSizes

\* C12 as stated, on the square panels: a wake that returns has put the
\* reset and the whole init sequence on the bus and has set the dirty flag,
\* and the show that directly follows it sends a complete RAM write, 0x24
\* with width * height / 8 bytes, and the refresh commands.
C12_Original ==
    [][ /\ (lastOp'.name = "wake" /\ lastOp'.exc = "") =>
              /\ dirty'
              /\ Len(bus') = 26
              /\ bus'[1].k = "reset"
        /\ (lastOp.name = "wake" /\ lastOp.exc = "" /\ lastOp'.name = "show"
               /\ width = height) =>
              /\ IsShowLog(bus', lastOp'.arg)
              /\ Len(bus'[2].v) = (width * height) \div 8
      ]_vars

\* C13: a call of sleep puts exactly the command 0x10 and the one data byte
\* 0x01 on the bus, with no read of the busy line and no wait; it raises
\* nothing, and it leaves the canvas, the flips, the rotation and the dirty
\* flag as they were.
C13_SleepSendsDeepSleepOnly ==
    [][ lastOp'.name = "sleep" =>
          /\ bus' = << Ev("cmd", <<\h10>>), Ev("data", <<\h01>>) >>
          /\ lastOp'.exc = ""
          /\ UNCHANGED <<buffer, flip_horizontal, flip_vertical, rotation,
                         dirty, width, height>>
      ]_vars

\* sleep was called on a dirty driver with a picture on a turned canvas.
C13_Witness ==
    /\ lastOp.name = "sleep" /\ lastOp.exc = ""
    /\ Len(bus) = 2
    /\ dirty
    /\ rotation = 270
    /\ buffer = TestImage(CanvasBytes)

\* The data bytes that follow command c in a bus log, up to the next event
\* that is not a data transfer of one byte.
RECURSIVE DataAfter(_, _)
DataAfter(b, i) ==
    IF i > Len(b) \/ b[i].k # "data" THEN <<>>
    ELSE <<b[i].v[1]>> \o DataAfter(b, i + 1)

PayloadOf(b, c) ==
    LET i == CHOOSE j \in 1..Len(b) : b[j] = Ev("cmd", <<c>>)
    IN  DataAfter(b, i + 1)

\* C14 as stated: in the sequence a completed init has sent, the first two
\* data bytes of 0x01 are the low and the high byte of height - 1, the end
\* byte of the X window of 0x44 is width / 8 - 1, and the four bytes of
\* 0x45, two 16-bit values low byte first, are the rows 0 and height - 1.
C14_Original ==
    (lastOp.name \in {"__init__", "wake"} /\ lastOp.exc = "") =>
        LET gate == PayloadOf(bus, \h01)
            xwin == PayloadOf(bus, \h44)
            ywin == PayloadOf(bus, \h45)
        IN  /\ Len(gate) = 3
            /\ gate[1] = (height - 1) % 256
            /\ gate[2] = (height - 1) \div 256
            /\ xwin = <<0, width \div 8 - 1>>
            /\ Len(ywin) = 4
            /\ {ywin[1] + 256 * ywin[2], ywin[3] + 256 * ywin[4]} = {0, height - 1}

\* C15: set_rotation and set_flip leave the canvas buffer as it was, and a
\* show, in any orientation and whether it returns, times out or raises,
\* leaves the canvas buffer, both flip flags and the rotation as they were.
C15_OrientationAndShowKeepCanvas ==
    [][ /\ lastOp'.name \in {"set_rotation", "set_flip"} => buffer' = buffer
        /\ lastOp'.name = "show" =>
              UNCHANGED <<buffer, flip_horizontal, flip_vertical, rotation,
                          width, height>>
      ]_vars

\* A show of a flipped and turned picture timed out: the bus carries the
\* transformed pixels and the canvas still holds the picture.
C15_Witness ==
    /\ lastOp.name = "show" /\ lastOp.exc = "BusyTimeout"
    /\ rotation = 90 /\ flip_vertical
    /\ buffer = TestImage(CanvasBytes)
    /\ Len(bus) = 6 /\ bus[2].v # buffer

\* C16 as stated, for the call that directly follows sleep: unless that call
\* is wake, it sends no command and no data to the panel; in particular a
\* show on a dirty driver does not emit 0x24, 0x22 or 0x20.
C16_Original ==
    [][ (lastOp.name = "sleep" /\ lastOp'.name # "wake") =>
            SelectSeq(bus', IsTransfer) = <<>>
      ]_vars

\* C17: every spi.write happens with chip-select low; D/C is low during
\* the write of send_cmd, which is one byte, and high during the write of
\* send_data; each call pulls chip-select low once and makes one write, so
\* a buffer goes out whole under one assertion; and once a call has
\* returned, chip-select is high whenever no call is in progress.
C17_PinProtocol ==
    xfer.pc # "none" =>
        /\ \A i \in 1..Len(xfer.wire) :
              LET e == xfer.wire[i]
              IN  /\ e.cs = 0
                  /\ e.call = "send_cmd" => e.dc = 0 /\ Len(e.bytes) = 1
                  /\ e.call = "send_data" => e.dc = 1 /\ Len(e.bytes) >= 1
        /\ Len(xfer.wire) = xfer.sends + (IF xfer.pc = "release" THEN 1 ELSE 0)
        /\ xfer.selects
             = xfer.sends + (IF xfer.pc \in {"write", "release"} THEN 1 ELSE 0)
        /\ xfer.pc = "release" =>
              Len(xfer.wire[Len(xfer.wire)].bytes) = Len(xfer.arg)
        /\ xfer.pc \in {"write", "release"} => cs = 0
        /\ (xfer.pc = "idle" /\ xfer.sends >= 1) => cs = 1

\* A command and then a buffer of 32 bytes have gone out, and the bus is
\* released.
C17_Witness ==
    /\ xfer.pc = "idle" /\ xfer.sends = 2
    /\ xfer.wire[1].call = "send_cmd" /\ xfer.wire[1].bytes = <<\h24>>
    /\ xfer.wire[2].call = "send_data" /\ xfer.wire[2].bytes = TestImage(32)
    /\ cs = 1

\* C18: with every sleep advancing the clock, a call of wait_busy ends: it
\* returns at the first read of the busy line that finds it low, after one
\* sleep per earlier read and with no sleep at all when the first read
\* finds it low, or else it raises the timeout error.
C18_WaitBusyTerminates ==
    /\ <>(wb.pc \in {"returned", "raised"})
    /\ [](wb.pc = "returned" =>
            /\ Elapsed >= (wb.polls - 1) * POLL_MS
            /\ Elapsed <= (wb.polls - 1) * (POLL_MS + MaxJitter)
            /\ wb.polls = 1 => wb.now = wb.start)
    /\ [](wb.pc = "raised" => wb.polls >= 2 /\ Elapsed >= (wb.polls - 1) * POLL_MS)

\* The line fell at the third read: two sleeps, then a normal return.
C18_Witness ==
    /\ wb.pc = "returned"
    /\ wb.polls = 3
    /\ Elapsed = 2 * POLL_MS
    /\ wb.timeout_ms = BUSY_TIMEOUT_MS

\* The number of 1 bits in the first n bytes of a buffer.
RECURSIVE OnesIn(_, _)
OnesIn(buf, n) ==
    IF n = 0 THEN 0
    ELSE OnesIn(buf, n - 1)
         + Cardinality({k \in 0..7 : BitOf(buf[n], k) = 1})

\* C19 as stated: on a square panel and for each of the 16 orientations,
\* the coordinate map of show sends the pixels of the canvas one-to-one
\* onto the pixels of the canvas and every destination byte index lies
\* inside the temporary buffer, which has the length of the canvas buffer;
\* so a payload that was sent has as many 1 pixels as the canvas.
C19_Original ==
    width = height =>
        /\ \A fh \in BOOLEAN, fv \in BOOLEAN, rot \in {0, 90, 180, 270} :
              LET o   == [w |-> width, h |-> height, fh |-> fh, fv |-> fv,
                          rot |-> rot]
                  pix == (0..(width - 1)) \X (0..(height - 1))
              IN  /\ {DstCoord(q[1], q[2], o) : q \in pix} = pix
                  /\ \A q \in pix : DstIndex(q[1], q[2], o) < Len(buffer)
        /\ FrameSent => OnesIn(bus[2].v, Len(bus[2].v)) = OnesIn(buffer, Len(buffer))

\* C20: both flips are False until the first set_flip; a set_flip stores
\* both of its arguments, an omitted one being False, so set_flip(vertical
\* = True) after set_flip(horizontal=True) leaves the horizontal flip off;
\* and no other call changes a flip.  (The argument of set_flip in lastOp
\* is 2 * vertical + horizontal.)
C20_SetFlipAssignsBothAxes ==
    [][ /\ lastOp.name = "new" => (~flip_horizontal /\ ~flip_vertical)
        /\ lastOp'.name = "set_flip" =>
              /\ flip_horizontal' = (lastOp'.arg % 2 = 1)
              /\ flip_vertical' = (lastOp'.arg \div 2 = 1)
        /\ lastOp'.name # "set_flip" => UNCHANGED <<flip_horizontal, flip_vertical>>
        /\ (lastOp.name = "set_flip" /\ lastOp.arg = 1
               /\ lastOp'.name = "set_flip" /\ lastOp'.arg = 2) =>
              (~flip_horizontal' /\ flip_vertical')
      ]_vars

\* set_flip(vertical=True) has returned on a canvas with a picture: only
\* the vertical flip is on.
C20_Witness ==
    /\ lastOp.name = "set_flip" /\ lastOp.arg = 2
    /\ flip_vertical /\ ~flip_horizontal
    /\ dirty
    /\ buffer = TestImage(CanvasBytes)

====
